---- MODULE Spec2Model ----
(***************************************************************************)
(* Model of the GoldenForgery updater: the digest type (src/hash.rs), the  *)
(* manifest parser and fetcher (src/manifest.rs) and the update cycle run  *)
(* by the iced runtime (src/main.rs).                                      *)
(*                                                                         *)
(* Text is a sequence of one-character strings.  A task returned by boot   *)
(* or by Progress::update is a stream: a sequence of steps of which the    *)
(* first is in flight; a step that completes appends its output message to *)
(* the runtime's FIFO channel and the stream moves on to its next step.    *)
(***************************************************************************)
EXTENDS Naturals, Integers, Sequences, FiniteSets, TLC

VARIABLES
    status,     \* Progress.status
    msgs,       \* messages produced by tasks, not yet passed to Progress::update
    tasks,      \* streams spawned on the executor, each a sequence of steps
    disk,       \* local files under the working directory: path -> file state
    tmp_dirs,   \* whether a "golden-forgery" staging directory exists on disk
    panicked,   \* whether a task has panicked (Result::unwrap on an Err)
    remote      \* the latest release, and the bodies its asset URLs serve

vars == <<status, msgs, tasks, disk, tmp_dirs, panicked, remote>>

----------------------------------------------------------------------------
(* Bounds of the model *)

\* largest number of lines of a manifest text
MaxLines == 2

----------------------------------------------------------------------------
(* Text helpers *)

Rep(c, n) == [i \in 1..n |-> c]

Range(s) == {s[i] : i \in 1..Len(s)}

HexChars == {"0", "1", "2", "3", "4", "5", "6", "7", "8", "9",
             "a", "b", "c", "d", "e", "f", "A", "B", "C", "D", "E", "F"}

\* 64 hexadecimal characters: the shape of a SHA-256 digest in base 16
IsHex64(s) == Len(s) = 64 /\ \A i \in 1..Len(s) : s[i] \in HexChars

UpperToLower == [c \in {"A", "B", "C", "D", "E", "F", "G", "H", "I", "J", "K", "L", "M",
                        "N", "O", "P", "Q", "R", "S", "T", "U", "V", "W", "X", "Y", "Z"} |->
    CASE c = "A" -> "a" [] c = "B" -> "b" [] c = "C" -> "c" [] c = "D" -> "d"
      [] c = "E" -> "e" [] c = "F" -> "f" [] c = "G" -> "g" [] c = "H" -> "h"
      [] c = "I" -> "i" [] c = "J" -> "j" [] c = "K" -> "k" [] c = "L" -> "l"
      [] c = "M" -> "m" [] c = "N" -> "n" [] c = "O" -> "o" [] c = "P" -> "p"
      [] c = "Q" -> "q" [] c = "R" -> "r" [] c = "S" -> "s" [] c = "T" -> "t"
      [] c = "U" -> "u" [] c = "V" -> "v" [] c = "W" -> "w" [] c = "X" -> "x"
      [] c = "Y" -> "y" [] c = "Z" -> "z"]

\* str::to_lowercase, on ASCII text
to_lowercase(s) ==
    [i \in 1..Len(s) |-> IF s[i] \in DOMAIN UpperToLower THEN UpperToLower[s[i]] ELSE s[i]]

\* str::starts_with
starts_with(s, prefix) ==
    /\ Len(prefix) <= Len(s)
    /\ \A i \in 1..Len(prefix) : s[i] = prefix[i]

\* str::lines: the text split at "\n", a final "\r" of a line dropped, no
\* empty line yielded after a final line terminator
RECURSIVE lines(_)
lines(text) ==
    IF text = <<>> THEN <<>>
    ELSE LET nl   == {i \in 1..Len(text) : text[i] = "\n"}
             stop == IF nl = {} THEN Len(text) + 1
                     ELSE CHOOSE i \in nl : \A j \in nl : i <= j
             raw  == SubSeq(text, 1, stop - 1)
             line == IF raw # <<>> /\ raw[Len(raw)] = "\r" /\ nl # {}
                     THEN SubSeq(raw, 1, Len(raw) - 1) ELSE raw
         IN  <<line>> \o lines(SubSeq(text, stop + 1, Len(text)))

\* str::split_once("  "): the text before and after the first two spaces
split_once(line) ==
    LET at == {i \in 1..(Len(line) - 1) : line[i] = " " /\ line[i + 1] = " "}
    IN  IF at = {} THEN [some |-> FALSE]
        ELSE LET k == CHOOSE i \in at : \A j \in at : i <= j
             IN  [some |-> TRUE,
                  left |-> SubSeq(line, 1, k - 1),
                  right |-> SubSeq(line, k + 2, Len(line))]

----------------------------------------------------------------------------
(* src/hash.rs *)

\* the length Hash::from_str requires
HashLen == 64

\* Hash::from_str
from_str(s) ==
    IF Len(s) # HashLen THEN [ok |-> FALSE, err |-> "InvalidHash"]
    ELSE [ok |-> TRUE, hash |-> s]

\* Sha256::digest followed by base16ct::lower::encode_string, on the file
\* contents of the model: distinct contents have distinct digests
Contents == {"c1", "c2"}

sha256_hex(data) == IF data = "c1" THEN Rep("a", 64) ELSE Rep("b", 64)

\* the state of a path on disk: "absent", "unreadable" (the path exists and
\* std::fs::read fails), or the contents of the file
file_at(d, path) == IF path \in DOMAIN d THEN d[path] ELSE "absent"

\* Hash::try_from(&PathBuf)
hash_of_file(d, path) ==
    IF file_at(d, path) \notin Contents THEN [ok |-> FALSE, err |-> "FileReadError"]
    ELSE from_str(sha256_hex(file_at(d, path)))

----------------------------------------------------------------------------
(* The manifest texts of the model *)

PathP == <<"p">>
PathQ == <<"q">>
Paths == {PathP, PathQ}

FileStates == {"absent", "unreadable"} \cup Contents

\* the lines a manifest text is made of: well-formed lines (two of them with
\* the same digest), a 64-character digest that is not hexadecimal, a digest
\* of the wrong length, a line with a single space and an empty line
LinePool ==
    { Rep("a", 64) \o <<" ", " ">> \o PathP,
      Rep("b", 64) \o <<" ", " ">> \o PathQ,
      Rep("a", 64) \o <<" ", " ">> \o PathQ,
      Rep("g", 64) \o <<" ", " ">> \o PathP,
      <<"a", "b", " ", " ">> \o PathP,
      Rep("a", 64) \o <<" ">> \o PathP,
      <<>> }

RECURSIVE join(_)
join(ls) == IF ls = <<>> THEN <<>> ELSE Head(ls) \o <<"\n">> \o join(Tail(ls))

ManifestTexts == {join(ls) : ls \in UNION {[1..n -> LinePool] : n \in 0..MaxLines}}

----------------------------------------------------------------------------
(* src/main.rs: Error and its Display text *)

to_string(err) ==
    CASE err = "ManifestNotFound"   -> "Could not find manifest file in latest release"
      [] err = "RequestError"       -> "Request error"
      [] err = "ReqwestError"       -> "Request error"
      [] err = "InvalidHash"        -> "Invalid hash in manifest file"
      [] err = "FileReadError"      -> "Failed to read file"
      [] err = "ReleaseZipNotFound" ->
            "Could not find the zip file in the latest release. Please contact the developers."
      [] err = "TmpDirCreateFail"   -> "Could not create temporary directory"
      [] err = "GenericError"       -> "GenericError"

----------------------------------------------------------------------------
(* src/manifest.rs *)

\* HashMap::insert: a later value of a key replaces the earlier one
insert(files, k, v) == [h \in DOMAIN files \cup {k} |-> IF h = k THEN v ELSE files[h]]

\* Manifest::try_from(String): lines without the two-space separator are
\* filtered out; Hash::from_str(..).unwrap() panics on a digest that is refused;
\* the pairs are collected into a HashMap keyed by the digest
RECURSIVE collect(_, _)
collect(ls, files) ==
    IF ls = <<>> THEN [panic |-> FALSE, files |-> files]
    ELSE LET pair == split_once(Head(ls))
         IN  IF ~pair.some THEN collect(Tail(ls), files)
             ELSE IF ~from_str(pair.left).ok THEN [panic |-> TRUE]
             ELSE collect(Tail(ls), insert(files, from_str(pair.left).hash, pair.right))

parse(text) == collect(lines(text), <<>>)

\* Manifest::try_from on the texts of the model, tabulated
Parsed == [text \in ManifestTexts |-> parse(text)]

try_from(text) == Parsed[text]

\* Iterator::find: the first of the indexes that satisfy the predicate, 0
\* when there is none
first_index(hits) == IF hits = {} THEN 0 ELSE CHOOSE i \in hits : \A j \in hits : i <= j

is_manifest_asset(asset) == to_lowercase(asset.name) = <<"m", "a", "n", "i", "f", "e", "s", "t">>

find_manifest_asset(assets) == first_index({i \in 1..Len(assets) : is_manifest_asset(assets[i])})

\* reqwest::get(url): the body the remote serves at the URL
body_at(r, url) == IF url = "url_manifest" THEN r.manifest_text ELSE r.zip

\* from_repository with the absence of the manifest asset tested after the
\* download and the parse
from_repository_late(r, net) ==
    IF net = "get_latest" THEN [kind |-> "err", err |-> "RequestError"]
    ELSE IF net = "download" THEN [kind |-> "err", err |-> "ReqwestError"]
    ELSE LET at == find_manifest_asset(r.release.assets)
             parsed == try_from(body_at(r, "url_manifest"))
         IN  IF parsed.panic THEN [kind |-> "panic"]
             ELSE IF at = 0 THEN [kind |-> "err", err |-> "ManifestNotFound"]
             ELSE [kind |-> "ok", release |-> r.release,
                   manifest |-> [files |-> parsed.files]]

\* Manifest::from_repository.  net is what the network does to this call:
\* "ok", "get_latest" (the release lookup fails) or "download" (the download
\* of the manifest body fails)
from_repository(r, net) ==
    IF net = "get_latest" THEN [kind |-> "err", err |-> "RequestError"]
    ELSE LET at == find_manifest_asset(r.release.assets)
         IN  IF at = 0 THEN [kind |-> "err", err |-> "ManifestNotFound"]
             ELSE IF net = "download" THEN [kind |-> "err", err |-> "ReqwestError"]
             ELSE LET parsed == try_from(body_at(r, r.release.assets[at].browser_download_url))
                  IN  IF parsed.panic THEN [kind |-> "panic"]
                      ELSE [kind |-> "ok", release |-> r.release,
                            manifest |-> [files |-> parsed.files]]

----------------------------------------------------------------------------
(* src/main.rs: the steps *)

\* the iteration orders of a HashMap: every enumeration of its keys
Orders(S) == {o \in [1..Cardinality(S) -> S] : \A i, j \in 1..Cardinality(S) : o[i] = o[j] => i = j}

\* is_pushed with the arms of the digest comparison exchanged: a file whose
\* digest equals the manifest's is pushed
is_pushed_on_match(d, manifest_hash, path) ==
    IF file_at(d, path) = "absent" THEN TRUE
    ELSE LET existing_file_hash == hash_of_file(d, path)
         IN  IF existing_file_hash.ok
             THEN (IF existing_file_hash.hash = manifest_hash THEN TRUE ELSE FALSE)
             ELSE TRUE

\* is_pushed without the else arm of the hash computation: a file that
\* cannot be hashed is skipped
is_pushed_readable_only(d, manifest_hash, path) ==
    IF file_at(d, path) = "absent" THEN TRUE
    ELSE LET existing_file_hash == hash_of_file(d, path)
         IN  IF existing_file_hash.ok
             THEN (IF existing_file_hash.hash = manifest_hash THEN FALSE ELSE FALSE)
             ELSE FALSE

\* the body of the loop of compare_files: whether the entry's path is pushed
\* to invalid_files
is_pushed(d, manifest_hash, path) ==
    IF file_at(d, path) = "absent" THEN TRUE
    ELSE LET existing_file_hash == hash_of_file(d, path)
         IN  IF existing_file_hash.ok
             THEN (IF existing_file_hash.hash = manifest_hash THEN FALSE ELSE FALSE)
             ELSE TRUE

\* compare_files, iterating manifest.files in the order given
RECURSIVE compare_loop(_, _, _)
compare_loop(files, order, d) ==
    IF order = <<>> THEN <<>>
    ELSE (IF is_pushed(d, Head(order), files[Head(order)])
          THEN <<files[Head(order)]>> ELSE <<>>)
         \o compare_loop(files, Tail(order), d)

compare_files(manifest, order, d) == [ok |-> TRUE, val |-> compare_loop(manifest.files, order, d)]

\* is_zip_asset without the test of the content type
is_zip_asset_by_name(asset) ==
    starts_with(asset.name, <<"g", "o", "l", "d", "e", "n", "-", "f", "o", "r", "g", "e", "r", "y">>)

is_zip_asset(asset) ==
    /\ asset.content_type = "application/zip"
    /\ starts_with(asset.name, <<"g", "o", "l", "d", "e", "n", "-", "f", "o", "r", "g", "e", "r", "y">>)

find_zip_asset(assets) == first_index({i \in 1..Len(assets) : is_zip_asset(assets[i])})

\* zip.extract("."): the first n entries of the archive written to disk
RECURSIVE extract(_, _, _)
extract(d, zip, n) ==
    IF n = 0 THEN d
    ELSE LET before == extract(d, zip, n - 1)
         IN  [p \in DOMAIN before \cup {zip[n].path} |->
                 IF p = zip[n].path THEN zip[n].data ELSE before[p]]

\* the faults the environment can inject into one run of update
Faults == {"none", "tmp_dir", "download", "write", "open", "archive", "extract"}

\* update(release): the result, the disk and the staging directory it leaves.
\* fault is the stage that fails, n the number of entries extract wrote
\* before it failed.  TempDir::into_path keeps the directory on disk.
update(release, r, d, tmp, fault, n) ==
    LET at == find_zip_asset(release.assets)
    IN  IF at = 0
        THEN [ok |-> FALSE, err |-> "ReleaseZipNotFound", disk |-> d, tmp_dirs |-> tmp]
        ELSE IF fault = "tmp_dir"
        THEN [ok |-> FALSE, err |-> "TmpDirCreateFail", disk |-> d, tmp_dirs |-> tmp]
        ELSE IF fault = "download"
        THEN [ok |-> FALSE, err |-> "ReqwestError", disk |-> d, tmp_dirs |-> TRUE]
        ELSE IF fault \in {"write", "open", "archive"}
        THEN [ok |-> FALSE, err |-> "GenericError", disk |-> d, tmp_dirs |-> TRUE]
        ELSE LET zip == body_at(r, release.assets[at].browser_download_url)
             IN  IF fault = "extract"
                 THEN [ok |-> FALSE, err |-> "GenericError",
                       disk |-> extract(d, zip, n), tmp_dirs |-> TRUE]
                 ELSE [ok |-> TRUE, disk |-> extract(d, zip, Len(zip)), tmp_dirs |-> TRUE]

----------------------------------------------------------------------------
(* The releases and packages of the model *)

ManifestAsset(name) ==
    [name |-> name, content_type |-> "application/octet-stream",
     browser_download_url |-> "url_manifest"]

ZipAsset(name, content_type) ==
    [name |-> name, content_type |-> content_type, browser_download_url |-> "url_zip"]

ZipName == <<"g", "o", "l", "d", "e", "n", "-", "f", "o", "r", "g", "e", "r", "y", ".", "z", "i", "p">>

\* the latest release: with a manifest and a package; with a manifest and a
\* package of another content type; without a manifest; with a manifest and
\* a zip asset of another name
Releases ==
    { [assets |-> <<ManifestAsset(<<"m", "a", "n", "i", "f", "e", "s", "t">>),
                    ZipAsset(ZipName, "application/zip")>>],
      [assets |-> <<ManifestAsset(<<"M", "a", "n", "i", "f", "e", "s", "t">>),
                    ZipAsset(ZipName, "application/x-zip-compressed")>>],
      [assets |-> <<ZipAsset(ZipName, "application/zip")>>],
      [assets |-> <<ManifestAsset(<<"m", "a", "n", "i", "f", "e", "s", "t">>),
                    ZipAsset(<<"o", "t", "h", "e", "r", ".", "z", "i", "p">>, "application/zip")>>] }

\* the package: an archive is the sequence of its entries
Archives ==
    { <<[path |-> PathP, data |-> "c1"], [path |-> PathQ, data |-> "c2"]>>,
      <<[path |-> PathQ, data |-> "c1"]>> }

----------------------------------------------------------------------------
(* Status, Message and the steps of a task *)

Checking == [tag |-> "Checking"]
Comparing(manifest) == [tag |-> "Comparing", manifest |-> manifest]
Updating(invalid_files) == [tag |-> "Updating", invalid_files |-> invalid_files]
Finished == [tag |-> "Finished"]
Error(text) == [tag |-> "Error", text |-> text]

BeginCompare(release, manifest) == [tag |-> "BeginCompare", release |-> release, manifest |-> manifest]
BeginUpdate(release, invalid_files) ==
    [tag |-> "BeginUpdate", release |-> release, invalid_files |-> invalid_files]
Finish == [tag |-> "Finish"]
Err(text) == [tag |-> "Err", text |-> text]

CheckStep == [op |-> "check_update"]
CompareStep(release, manifest) == [op |-> "compare_files", release |-> release, manifest |-> manifest]
UpdateStep(release) == [op |-> "update", release |-> release]

\* check_update_task: a stream of one step
check_update_task == <<CheckStep>>

\* the closure of check_update_task
check_update_message(f) ==
    IF f.kind = "ok" THEN BeginCompare(f.release, f.manifest) ELSE Err(to_string(f.err))

\* compare_message with the test of the length off by one: an empty
\* divergence set begins an update
compare_message_ge(release, f) ==
    IF f.ok
    THEN (IF Len(f.val) >= 0 THEN BeginUpdate(release, f.val) ELSE Finish)
    ELSE Err(to_string(f.err))

\* the closure of the BeginCompare arm of Progress::update
compare_message(release, f) ==
    IF f.ok
    THEN (IF Len(f.val) > 0 THEN BeginUpdate(release, f.val) ELSE Finish)
    ELSE Err(to_string(f.err))

\* the closure of the BeginUpdate arm of Progress::update
update_message(f) == IF f.ok THEN Finish ELSE Err(to_string(f.err))

\* Task::chain: the steps of the second stream follow those of the first
chain(first, second) == first \o second

\* the stream i has completed its first step: it moves on to the next one,
\* and a stream with no step left is dropped
Advance(i) ==
    IF Len(tasks[i]) > 1 THEN [tasks EXCEPT ![i] = Tail(tasks[i])]
    ELSE SubSeq(tasks, 1, i - 1) \o SubSeq(tasks, i + 1, Len(tasks))

\* Spawn with a check_update_task in the place of Task::none
Spawn_recheck(task) == Append(tasks, IF task = <<>> THEN check_update_task ELSE task)

\* the runtime spawns the task an update returned; Task::none has no step
Spawn(task) == IF task = <<>> THEN tasks ELSE Append(tasks, task)

----------------------------------------------------------------------------
(* The state machine *)

\* boot: Progress::default() and the first check_update_task
Init ==
    /\ status = Checking
    /\ msgs = <<>>
    /\ tasks = <<check_update_task>>
    /\ disk \in [Paths -> FileStates]
    /\ tmp_dirs = FALSE
    /\ panicked = FALSE
    /\ remote \in [release : Releases, manifest_text : ManifestTexts, zip : Archives]

\* the step check_update of stream i completes
CheckUpdate(i, net) ==
    /\ i \in 1..Len(tasks)
    /\ Head(tasks[i]).op = "check_update"
    /\ LET f == from_repository(remote, net)
       IN  IF f.kind = "panic"
           THEN /\ panicked' = TRUE
                /\ tasks' = SubSeq(tasks, 1, i - 1) \o SubSeq(tasks, i + 1, Len(tasks))
                /\ msgs' = msgs
           ELSE /\ msgs' = Append(msgs, check_update_message(f))
                /\ tasks' = Advance(i)
                /\ panicked' = panicked
    /\ UNCHANGED <<status, disk, tmp_dirs, remote>>

\* the step compare_files of stream i completes, having iterated the
\* HashMap in one of its orders
CompareFiles(i) ==
    /\ i \in 1..Len(tasks)
    /\ Head(tasks[i]).op = "compare_files"
    /\ \E order \in Orders(DOMAIN Head(tasks[i]).manifest.files) :
           msgs' = Append(msgs, compare_message(Head(tasks[i]).release,
                                                compare_files(Head(tasks[i]).manifest, order, disk)))
    /\ tasks' = Advance(i)
    /\ UNCHANGED <<status, disk, tmp_dirs, panicked, remote>>

\* the step update of stream i completes
Update(i, fault) ==
    /\ i \in 1..Len(tasks)
    /\ Head(tasks[i]).op = "update"
    /\ \E n \in (IF fault = "extract" THEN 0..(Len(remote.zip) - 1) ELSE {0}) :
           LET f == update(Head(tasks[i]).release, remote, disk, tmp_dirs, fault, n)
           IN  /\ msgs' = Append(msgs, update_message(f))
               /\ disk' = f.disk
               /\ tmp_dirs' = f.tmp_dirs
    /\ tasks' = Advance(i)
    /\ UNCHANGED <<status, panicked, remote>>

\* Progress::update on the oldest message of the channel
ProgressUpdate ==
    /\ msgs # <<>>
    /\ LET message == Head(msgs)
       IN  CASE message.tag = "BeginCompare" ->
                  /\ status' = Comparing(message.manifest)
                  /\ tasks' = Spawn(<<CompareStep(message.release, message.manifest)>>)
             [] message.tag = "BeginUpdate" ->
                  /\ status' = Updating(message.invalid_files)
                  /\ tasks' = Spawn(chain(<<UpdateStep(message.release)>>, check_update_task))
             [] message.tag = "Finish" ->
                  /\ status' = Finished
                  /\ tasks' = Spawn(<<>>)
             [] message.tag = "Err" ->
                  /\ status' = Error(message.text)
                  /\ tasks' = Spawn(<<>>)
    /\ msgs' = Tail(msgs)
    /\ UNCHANGED <<disk, tmp_dirs, panicked, remote>>

NetOutcomes == {"ok", "get_latest", "download"}

Next ==
    \/ \E i \in 1..Len(tasks), net \in NetOutcomes : CheckUpdate(i, net)
    \/ \E i \in 1..Len(tasks) : CompareFiles(i)
    \/ \E i \in 1..Len(tasks), fault \in Faults : Update(i, fault)
    \/ ProgressUpdate

Spec == Init /\ [][Next]_vars

----------------------------------------------------------------------------
(* The cycle under the hypothesis that nothing fails *)

\* the manifest the remote serves parses, and the package is found
FetchSucceeds == from_repository(remote, "ok").kind = "ok"

\* every entry of the manifest is on disk d with the digest of the manifest
Matches(files, d) ==
    \A h \in DOMAIN files :
        file_at(d, files[h]) \in Contents /\ sha256_hex(file_at(d, files[h])) = h

\* the update step, run without fault, succeeds and leaves the local tree
\* matching the manifest
UpdateRepairs ==
    LET f == update(remote.release, remote, disk, tmp_dirs, "none", 0)
    IN  f.ok /\ Matches(try_from(remote.manifest_text).files, f.disk)

LiveInit == Init /\ FetchSucceeds /\ UpdateRepairs

LiveNext ==
    \/ \E i \in 1..Len(tasks) : CheckUpdate(i, "ok")
    \/ \E i \in 1..Len(tasks) : CompareFiles(i)
    \/ \E i \in 1..Len(tasks) : Update(i, "none")
    \/ ProgressUpdate

\* the executor runs every spawned step to completion and the runtime passes
\* every message of the channel to Progress::update
LiveSpec == LiveInit /\ [][LiveNext]_vars /\ WF_vars(LiveNext)

----------------------------------------------------------------------------
(* Properties *)

Terminal == status.tag \in {"Finished", "Error"}

\* a step op is in flight
InFlight(op) == \E i \in 1..Len(tasks) : Head(tasks[i]).op = op

\* a step op is in flight or chained behind the step in flight
Pending(op) == \E i \in 1..Len(tasks) : \E k \in 1..Len(tasks[i]) : tasks[i][k].op = op

\* this transition starts a step: a task is spawned, or a stream moves on to
\* its next step
StartsStep ==
    \/ Len(tasks') > Len(tasks)
    \/ \E i \in 1..Len(tasks) :
           Len(tasks[i]) > 1 /\ Len(tasks') = Len(tasks) /\ tasks'[i] = Tail(tasks[i])

\* this transition is the completion of the step op, which queues a message
Completes(op) == InFlight(op) /\ Len(msgs') = Len(msgs) + 1

\* the manifest of the compare_files step in flight
ComparedFiles == (CHOOSE st \in {Head(tasks[i]) : i \in 1..Len(tasks)} :
                     st.op = "compare_files").manifest.files

\* C1: once the status is Finished or Error, no transition changes the status
\* and no transition starts a step (fetch, compare or update).
C1_TerminalIsFinal == [][Terminal => (status' = status /\ ~StartsStep)]_vars

\* C2: when the update step has succeeded (its Finish message is the one
\* Progress::update handles while the status is Updating), the status goes
\* from Updating to Checking.
C2_UpdatingBackToChecking ==
    [][(status.tag = "Updating" /\ msgs # <<>> /\ Head(msgs).tag = "Finish" /\ status' # status)
          => status'.tag = "Checking"]_vars

\* C3: when compare_files completes, every entry whose path is a readable
\* file with a digest other than the manifest's is in the divergence set it
\* returns (the invalid_files of the BeginUpdate message).
C3_MismatchIsDivergent ==
    [][Completes("compare_files") =>
          \A h \in DOMAIN ComparedFiles :
              (/\ file_at(disk, ComparedFiles[h]) \in Contents
               /\ sha256_hex(file_at(disk, ComparedFiles[h])) # h)
              => /\ msgs'[Len(msgs')].tag = "BeginUpdate"
                 /\ ComparedFiles[h] \in Range(msgs'[Len(msgs')].invalid_files)]_vars

\* C4: compare_files returns an empty divergence set (the message is Finish)
\* if and only if every entry's path exists with the digest of the manifest.
C4_EmptyIffMatches ==
    [][Completes("compare_files") =>
          (msgs'[Len(msgs')] = Finish <=> Matches(ComparedFiles, disk))]_vars

\* C5: when the update step fails, no step is started: the failure message is
\* queued and no fetch, compare or update is in flight afterwards.
C5_FailedUpdateNotRetried ==
    [][(Completes("update") /\ msgs'[Len(msgs')].tag = "Err")
          => ~StartsStep]_vars

\* C6: when compare_files returns an empty divergence set, the message is
\* Finish and no update step is started; handling it takes the status from
\* Comparing to Finished, starts no step and leaves the disk and the staging
\* directory untouched.
C6_EmptyCompareFinishes ==
    [][/\ (Completes("compare_files")
           /\ \A order \in Orders(DOMAIN ComparedFiles) :
                  compare_loop(ComparedFiles, order, disk) = <<>>)
          => (msgs' = Append(msgs, Finish) /\ ~Pending("update")' /\ disk' = disk)
       /\ (status.tag = "Comparing" /\ msgs # <<>> /\ Head(msgs) = Finish)
          => (/\ status' = Finished
              /\ ~StartsStep /\ ~Pending("update")'
              /\ disk' = disk /\ tmp_dirs' = tmp_dirs)]_vars

\* C6 witness: the cycle is Finished and idle, no update having run, on a
\* tree that matches a manifest of at least one entry
C6_Witness ==
    /\ status = Finished /\ tasks = <<>> /\ msgs = <<>>
    /\ ~tmp_dirs
    /\ find_manifest_asset(remote.release.assets) # 0
    /\ ~try_from(remote.manifest_text).panic
    /\ DOMAIN try_from(remote.manifest_text).files # {}
    /\ Matches(try_from(remote.manifest_text).files, disk)

\* C7: under the hypothesis and fair scheduling the cycle eventually is
\* Finished and stays Finished.
C7_EventuallyFinished == <>[](status = Finished)

\* C7 witness: the cycle is Finished and idle after an update has run
C7_Witness == status = Finished /\ tasks = <<>> /\ msgs = <<>> /\ tmp_dirs

\* C8: every digest Hash::from_str has accepted (the keys of a parsed
\* manifest) is 64 hexadecimal characters.
C8_AcceptsOnlyHex64 ==
    \A i \in 1..Len(msgs) :
        msgs[i].tag = "BeginCompare" => \A h \in DOMAIN msgs[i].manifest.files : IsHex64(h)

\* C9: Manifest::try_from does not return Ok for a text with a non-empty
\* line that lacks the two-space separator.
C9_NoSilentSkip ==
    \A i \in 1..Len(msgs) :
        msgs[i].tag = "BeginCompare" =>
            \A k \in 1..Len(lines(remote.manifest_text)) :
                lines(remote.manifest_text)[k] # <<>>
                    => split_once(lines(remote.manifest_text)[k]).some

\* some line of the text has a digest field Hash::from_str refuses
HasRefusedDigest(text) ==
    \E k \in 1..Len(lines(text)) :
        /\ split_once(lines(text)[k]).some
        /\ ~from_str(split_once(lines(text)[k]).left).ok

\* C10: when the check step completes on a manifest with a malformed digest,
\* nothing panics and an error message is queued.
C10_MalformedDigestIsError ==
    [][(/\ InFlight("check_update") /\ tasks' # tasks
        /\ find_manifest_asset(remote.release.assets) # 0
        /\ HasRefusedDigest(remote.manifest_text))
          => (/\ ~panicked'
              /\ msgs' \in {Append(msgs, Err(to_string("InvalidHash"))),
                            Append(msgs, Err(to_string("ReqwestError"))),
                            Append(msgs, Err(to_string("RequestError")))})]_vars


\* the release of the update step in flight
UpdatedRelease == (CHOOSE st \in {Head(tasks[i]) : i \in 1..Len(tasks)} :
                      st.op = "update").release

\* the release has an asset of content type "application/zip" whose name
\* starts with "golden-forgery"
HasPackage(release) ==
    \E i \in 1..Len(release.assets) :
        /\ release.assets[i].content_type = "application/zip"
        /\ Len(release.assets[i].name) >= 14
        /\ SubSeq(release.assets[i].name, 1, 14) =
               <<"g", "o", "l", "d", "e", "n", "-", "f", "o", "r", "g", "e", "r", "y">>

\* the release has an asset whose name is "manifest" in some mix of cases
HasManifest(release) ==
    \E i \in 1..Len(release.assets) :
        /\ Len(release.assets[i].name) = 8
        /\ \A k \in 1..8 :
               release.assets[i].name[k] \in
                   {<<"m", "a", "n", "i", "f", "e", "s", "t">>[k],
                    <<"M", "A", "N", "I", "F", "E", "S", "T">>[k]}

\* C11: when the update step has returned, no staging directory exists.
C11_StagingDirRemoved == [][Completes("update") => ~tmp_dirs']_vars

\* C12: when the latest release has no manifest asset, the check step, unless
\* the lookup of the release itself failed (Request error), queues the
\* message of ManifestNotFound without panicking in a parse; handling it
\* enters Error with that text; the status is never Comparing or Updating.
C12_NoManifestIsError ==
    [][~HasManifest(remote.release) =>
          /\ (InFlight("check_update") /\ tasks' # tasks)
                => /\ ~panicked'
                   /\ msgs' \in {Append(msgs, Err(to_string("ManifestNotFound"))),
                                 Append(msgs, Err(to_string("RequestError")))}
          /\ (msgs # <<>> /\ msgs' = Tail(msgs)) => status' = Error(Head(msgs).text)
          /\ status'.tag \notin {"Comparing", "Updating"}
          /\ ~Pending("compare_files")' /\ ~Pending("update")']_vars

\* C12 witness: the cycle is in Error with the text of ManifestNotFound
C12_Witness ==
    /\ ~HasManifest(remote.release)
    /\ status = Error("Could not find manifest file in latest release")

\* C13: the update step fails with ReleaseZipNotFound exactly when the release
\* has no package asset, and then it creates no staging directory and writes
\* no local file.
C13_ZipNotFoundExactly ==
    [][Completes("update") =>
          /\ ~HasPackage(UpdatedRelease)
                <=> msgs' = Append(msgs, Err(to_string("ReleaseZipNotFound")))
          /\ ~HasPackage(UpdatedRelease) => (tmp_dirs' = tmp_dirs /\ disk' = disk)]_vars

\* C13 witness: the cycle is in Error with the text of ReleaseZipNotFound, no
\* staging directory existing
C13_Witness ==
    /\ status = Error(to_string("ReleaseZipNotFound"))
    /\ ~tmp_dirs
    /\ ~HasPackage(remote.release)


\* C14: when a manifest has been parsed, the path of every well-formed line
\* of the text is a path of the manifest compare_files goes through (parsing
\* reports no collision: Manifest::try_from has no error result).
C14_NoPathDropped ==
    \A i \in 1..Len(msgs) :
        msgs[i].tag = "BeginCompare" =>
            \A k \in 1..Len(lines(remote.manifest_text)) :
                LET pair == split_once(lines(remote.manifest_text)[k])
                IN  (pair.some /\ Len(pair.left) = 64)
                        => \E h \in DOMAIN msgs[i].manifest.files :
                               msgs[i].manifest.files[h] = pair.right

\* C15: compare_files never fails: its message is never Err, and every entry
\* whose path does not exist or whose file cannot be hashed is in the
\* divergence set of the BeginUpdate message.
C15_CompareAbsorbsFailures ==
    [][Completes("compare_files") =>
          /\ msgs'[Len(msgs')].tag \in {"BeginUpdate", "Finish"}
          /\ \A h \in DOMAIN ComparedFiles :
                 file_at(disk, ComparedFiles[h]) \notin Contents
                     => /\ msgs'[Len(msgs')].tag = "BeginUpdate"
                        /\ ComparedFiles[h] \in Range(msgs'[Len(msgs')].invalid_files)]_vars

\* C15 witness: an update runs for a divergence set with a file that exists
\* and cannot be read
C15_Witness ==
    /\ status.tag = "Updating" /\ InFlight("update")
    /\ \E p \in Range(status.invalid_files) : file_at(disk, p) = "unreadable"

\* C16: two calls of compare_files with the same manifest and the same local
\* files return the same sequence: whatever order the HashMap of a call is
\* iterated in, the result is the same.
C16_CompareDeterministic ==
    InFlight("compare_files") =>
        \A o1, o2 \in Orders(DOMAIN ComparedFiles) :
            compare_files([files |-> ComparedFiles], o1, disk)
                = compare_files([files |-> ComparedFiles], o2, disk)


\* no step is in flight and no message waits for Progress::update
Idle == tasks = <<>> /\ msgs = <<>>

\* C17: at most one step is in flight, and a step is in flight only when the
\* result message of every earlier step has been handled.
C17_OneStepAfterHandling ==
    /\ Len(tasks) <= 1
    /\ tasks # <<>> => msgs = <<>>

\* C18: every transition into Finished is a transition from Comparing.
C18_FinishedOnlyFromComparing ==
    [][(status'.tag = "Finished" /\ status.tag # "Finished")
          => status.tag = "Comparing"]_vars

\* C19: the files of Updating are never empty, and an update step appears
\* only when Progress::update handles a BeginUpdate message, whose divergence
\* set is not empty.
C19_UpdatingNonEmpty ==
    /\ [](status.tag = "Updating" => Len(status.invalid_files) > 0)
    /\ [][(~Pending("update") /\ Pending("update")')
             => /\ msgs # <<>> /\ Head(msgs).tag = "BeginUpdate"
                /\ Len(Head(msgs).invalid_files) > 0
                /\ status' = Updating(Head(msgs).invalid_files)]_vars

\* C19 witness: the status is Updating and the update step is in flight
C19_Witness == status.tag = "Updating" /\ InFlight("update")

\* C20: when Progress::update handles the Err of the first manifest fetch
\* (the status is still Checking) or the Finish of a comparison (the status
\* is Comparing), nothing is pending afterwards; and from a state where
\* nothing is pending no transition is taken.
C20_QuietAfterTerminal ==
    [][/\ (status.tag = "Checking" /\ msgs # <<>> /\ Head(msgs).tag = "Err")
            => (status' = Error(Head(msgs).text) /\ Idle')
       /\ (status.tag = "Comparing" /\ msgs # <<>> /\ Head(msgs).tag = "Finish")
            => (status' = Finished /\ Idle')
       /\ Idle => UNCHANGED vars]_vars

\* C20 witness: the first manifest fetch failed in the lookup of the release,
\* the cycle is in Error and nothing is pending
C20_Witness ==
    /\ status = Error(to_string("RequestError")) /\ Idle
    /\ ~HasManifest(remote.release)

====
